---- MODULE Spec2Model ----
\* Tunnel connection-parameter resolution (package tunnel: makeRunConfig,
\* parseSSHConf, validate, makeClientConfig, fillHome) and the diagnostic
\* sink it logs to (package log: logWriter, Write, tryRotate, SetOutput).
\*
\* Strings the code only compares with "" (host names, users) are TLA+
\* strings. Strings the code inspects (the Port text handed to strconv.Atoi,
\* the local address searched for ':', the paths fillHome rewrites) are
\* sequences of one-character strings, resp. of path tokens.
EXTENDS Integers, Sequences, FiniteSets, TLC

VARIABLES
    t,          \* the Tunnel declaration: Host, User, Port, IdentityFile, LocalAddress, RemoteAddress
    t_rc,       \* t.rc: <<>> while nil, <<rc>> once makeRunConfig stored a run configuration
    conf,       \* ~/.ssh/config as os.Open / ssh_config.Decode / Get see it
    fs,         \* what os.ReadFile and ssh.ParsePrivateKey make of each key file path
    kh,         \* whether knownhosts.New(~/.ssh/known_hosts) succeeds
    pc,         \* position of the makeRunConfig call
    rc,         \* makeRunConfig's local runConfig
    err,        \* the error makeRunConfig returns (chain of wrapped messages, <<>> = nil)
    idx,        \* makeClientConfig: index of the next candidate in identityFiles
    signers,    \* makeClientConfig: the Signer Set
    warnings,   \* the candidates log.Warningf was called for, in order
    addr,       \* local address normalization: the input string
    norm,       \* local address normalization: the current result
    applied,    \* local address normalization: how often it was applied
    writers,    \* the logWriter objects allocated so far: inner, mutex
    writer,     \* the package-level writer (index into writers)
    lpc,        \* per goroutine: position in a log call
    lw,         \* per goroutine: the logWriter its Fprintf call obtained
    outSize,    \* per output: its file size
    outLog,     \* per output: the goroutines whose messages were written, in order
    nLogs,      \* per goroutine: log calls completed
    nSet        \* SetOutput calls made

vars == <<t, t_rc, conf, fs, kh, pc, rc, err, idx, signers, warnings,
          addr, norm, applied,
          writers, writer, lpc, lw, outSize, outLog, nLogs, nSet>>

runVars == <<t, t_rc, conf, fs, kh, pc, rc, err, idx, signers, warnings>>
normVars == <<addr, norm, applied>>
logVars == <<writers, writer, lpc, lw, outSize, outLog, nLogs, nSet>>

\* ---------------------------------------------------------------- bounds

MaxPortLen == 2
MaxAddrLen == 3
NumProcs == 2
MaxLogs == 2
MaxSetOutput == 1
MsgLen == 64

\* ------------------------------------------------------------- constants

sshPort == 22
sshConnTimeout == 10
maxFileSize == 131072

\* -------------------------------------------------------------- strings

SeqsUpTo(S, n) == UNION {[1..k -> S] : k \in 0..n}

Contains(s, c) == \E i \in 1..Len(s) : s[i] = c

HasPrefix(s, p) == Len(s) >= Len(p) /\ SubSeq(s, 1, Len(p)) = p

Digits == {"0", "1", "2", "3", "4", "5", "6", "7", "8", "9"}

DigitVal(c) ==
    CASE c = "0" -> 0 [] c = "1" -> 1 [] c = "2" -> 2 [] c = "3" -> 3
      [] c = "4" -> 4 [] c = "5" -> 5 [] c = "6" -> 6 [] c = "7" -> 7
      [] c = "8" -> 8 [] c = "9" -> 9

RECURSIVE DecimalValue(_)
DecimalValue(s) ==
    IF s = <<>> THEN 0
    ELSE 10 * DecimalValue(SubSeq(s, 1, Len(s) - 1)) + DigitVal(s[Len(s)])

\* strconv.Atoi, with its error dropped as parseSSHConf drops it: an optional
\* sign, then decimal digits only; anything else is a syntax error and gives 0.
\* (Texts here are far shorter than the 19 characters at which Atoi leaves its
\* fast path, so no range error arises.)
Atoi(s) ==
    LET signed == s # <<>> /\ s[1] \in {"-", "+"}
        body == IF signed THEN Tail(s) ELSE s
    IN  IF body = <<>> \/ (\E i \in 1..Len(body) : body[i] \notin Digits)
        THEN 0
        ELSE IF signed /\ s[1] = "-" THEN 0 - DecimalValue(body)
        ELSE DecimalValue(body)

\* ---------------------------------------------------------------- paths

\* $HOME
Home == <<"/", "home">>

\* filepath.Join of two already clean paths: empty elements are ignored.
Join(a, b) ==
    IF b = <<>> THEN a
    ELSE IF a = <<>> THEN b
    ELSE a \o <<"/">> \o b

fillHome(path) ==
    IF path = <<"~">> THEN Home
    ELSE IF HasPrefix(path, <<"~", "/">>) THEN Join(Home, SubSeq(path, 3, Len(path)))
    ELSE path

defaultKeys ==
    << <<"~", "/", ".ssh", "/", "id_rsa">>,
       <<"~", "/", ".ssh", "/", "id_ecdsa">>,
       <<"~", "/", ".ssh", "/", "id_ed25519">> >>

\* ----------------------------------------------------------- run config

NoError == <<>>

NoClientConfig ==
    [set |-> FALSE, User |-> "", Auth |-> <<>>, HostKeyCallback |-> "none", Timeout |-> 0]

\* runConfig{}
ZeroRunConfig ==
    [localAddress |-> <<>>, remoteAddress |-> "", hostName |-> "", user |-> "",
     port |-> 0, identityFile |-> <<>>, clientConfig |-> NoClientConfig]

\* sshConf.Get(alias, key): the value of the first Host block that matches the
\* alias and holds the key, "" when there is none.
Get(file, alias, key) ==
    IF file.host = alias THEN file.entry[key]
    ELSE IF key \in {"IdentityFile", "Port"} THEN <<>> ELSE ""

\* faulty variant: the Decode error is dropped like the Open error
parseSSHConfIgnoringDecodeError(alias, r) ==
    IF conf.status # "ok" THEN [err |-> NoError, rc |-> r]
    ELSE [err |-> NoError,
          rc |-> [r EXCEPT !.identityFile = Get(conf, alias, "IdentityFile"),
                           !.user = Get(conf, alias, "User"),
                           !.port = Atoi(Get(conf, alias, "Port")),
                           !.hostName = Get(conf, alias, "HostName")]]

parseSSHConf(alias, r) ==
    IF conf.status \in {"missing", "unreadable"}
    THEN \* os.Open failed: return nil
         [err |-> NoError, rc |-> r]
    ELSE IF conf.status = "corrupt"
    THEN [err |-> <<"could not decode ssh config", "decode error">>, rc |-> r]
    ELSE [err |-> NoError,
          rc |-> [r EXCEPT !.identityFile = Get(conf, alias, "IdentityFile"),
                           !.user = Get(conf, alias, "User"),
                           !.port = Atoi(Get(conf, alias, "Port")),
                           !.hostName = Get(conf, alias, "HostName")]]

\* faulty variant: the config file wins over the declaration
overrideConfigFirst(d, r) ==
    LET r1 == [r EXCEPT !.user = IF r.user = "" THEN d.User ELSE @,
                        !.port = IF r.port = 0 THEN d.Port ELSE @,
                        !.identityFile = IF r.identityFile = <<>> THEN d.IdentityFile ELSE @]
    IN  [r1 EXCEPT !.port = IF r1.port = 0 THEN sshPort ELSE @,
                   !.hostName = IF r1.hostName = "" THEN d.Host ELSE @]

\* faulty variant: the alias is not taken as the host name
overrideNoHostFallback(d, r) ==
    LET r1 == [r EXCEPT !.user = IF d.User # "" THEN d.User ELSE @,
                        !.port = IF d.Port # 0 THEN d.Port ELSE @,
                        !.identityFile = IF d.IdentityFile # <<>> THEN d.IdentityFile ELSE @]
    IN  [r1 EXCEPT !.port = IF r1.port = 0 THEN sshPort ELSE @]

\* makeRunConfig, "Override values which were manually set by user" down to
\* "take it literally"
override(d, r) ==
    LET r1 == [r EXCEPT !.user = IF d.User # "" THEN d.User ELSE @,
                        !.port = IF d.Port # 0 THEN d.Port ELSE @,
                        !.identityFile = IF d.IdentityFile # <<>> THEN d.IdentityFile ELSE @]
    IN  [r1 EXCEPT !.port = IF r1.port = 0 THEN sshPort ELSE @,
                   !.hostName = IF r1.hostName = "" THEN d.Host ELSE @]

\* faulty variant: the user is not checked
validateWithoutUser(r) ==
    IF r.hostName = "" THEN <<"no host specified.">>
    ELSE IF r.port = 0 THEN <<"no port specified.">>
    ELSE NoError

validate(r) ==
    IF r.hostName = "" THEN <<"no host specified.">>
    ELSE IF r.user = "" THEN <<"no user specified.">>
    ELSE IF r.port = 0 THEN <<"no port specified.">>
    ELSE NoError

\* identityFiles := append([]string{identityFile}, defaultKeys...)
identityFiles(identityFile) == <<identityFile>> \o defaultKeys

\* faulty variant: the warning is emitted for a file that cannot be read
scanKeyWarningOnUnreadable(acc, i) ==
    LET outcome == fs[fillHome(i)]
    IN  IF outcome = "unreadable" THEN [acc EXCEPT !.warnings = Append(@, i)]
        ELSE IF outcome = "unparsable" THEN acc
        ELSE [acc EXCEPT !.signers = Append(@, fillHome(i))]

\* one iteration of makeClientConfig's loop over identityFiles; a signer is
\* named by the file it was parsed from
scanKey(acc, i) ==
    LET outcome == fs[fillHome(i)]
    IN  IF outcome = "unreadable" THEN acc
        ELSE IF outcome = "unparsable"
        THEN [acc EXCEPT !.warnings = Append(@, i)]
        ELSE [acc EXCEPT !.signers = Append(@, fillHome(i))]

\* faulty variant: an empty Signer Set is let through
finishClientConfigWithoutSigners(user, sgn) ==
    IF kh # "ok"
    THEN [err |-> <<"knownhosts: cannot read store">>, conf |-> NoClientConfig]
    ELSE [err |-> NoError,
          conf |-> [set |-> TRUE, User |-> user, Auth |-> sgn,
                    HostKeyCallback |-> "knownhosts", Timeout |-> sshConnTimeout]]

\* faulty variant: a known-hosts failure is skipped
finishClientConfigSkippingKnownHosts(user, sgn) ==
    IF Len(sgn) = 0
    THEN [err |-> <<"no key files found.">>, conf |-> NoClientConfig]
    ELSE [err |-> NoError,
          conf |-> [set |-> TRUE, User |-> user, Auth |-> sgn,
                    HostKeyCallback |-> IF kh = "ok" THEN "knownhosts" ELSE "none",
                    Timeout |-> sshConnTimeout]]

\* makeClientConfig after the loop: the empty check, knownhosts.New, the
\* ssh.ClientConfig
finishClientConfig(user, sgn) ==
    IF Len(sgn) = 0
    THEN [err |-> <<"no key files found.">>, conf |-> NoClientConfig]
    ELSE IF kh # "ok"
    THEN [err |-> <<"knownhosts: cannot read store">>, conf |-> NoClientConfig]
    ELSE [err |-> NoError,
          conf |-> [set |-> TRUE, User |-> user, Auth |-> sgn,
                    HostKeyCallback |-> "knownhosts", Timeout |-> sshConnTimeout]]

\* "localhost:"
LocalhostColon == <<"l", "o", "c", "a", "l", "h", "o", "s", "t", ":">>

\* faulty variant: the prefix is added whatever the input
normalizeAlwaysPrefixing(a) == LocalhostColon \o a

\* rc.localAddress as makeRunConfig sets it from t.LocalAddress
normalizeLocalAddress(a) ==
    IF ~Contains(a, ":") THEN LocalhostColon \o a ELSE a

\* ------------------------------------------------------------ log sink

Procs == 1..NumProcs

\* os.Stdout (an *os.File) and an in-memory buffer (not a file)
Outs == {"stdout", "buf"}

IsFile(o) == o = "stdout"

\* logWriter.tryRotate: the size of the inner output afterwards
tryRotate(o, size, statOk, truncOk) ==
    IF ~IsFile(o) THEN size
    ELSE IF ~statOk THEN size
    ELSE IF size < maxFileSize THEN size
    ELSE IF truncOk THEN 0
    ELSE size

\* --------------------------------------------------- inputs of the model

Hosts == {"myhost", ""}
Users == {"", "bob"}
Ports == {0, 8022, 0 - 1}
KeyK == <<"k">>
KeyC == <<"~", "/", "c">>
KeyTilde == <<"~">>
Addr8080 == <<"8", "0", "8", "0">>
AddrAny8080 == <<"0", ".", "0", ".", "0", ".", "0", ":", "8", "0", "8", "0">>

PortChars == {"2", "0", "-", "+", "a"}
PortTexts == SeqsUpTo(PortChars, MaxPortLen)

AddrChars == {"8", "0", ":"}
AddrInputs == SeqsUpTo(AddrChars, MaxAddrLen) \cup {Addr8080, AddrAny8080}

EmptyEntry == [HostName |-> "", User |-> "", Port |-> <<>>, IdentityFile |-> <<>>]

Entries ==
    [HostName : {"", "example.com"}, User : {"", "alice"},
     Port : PortTexts, IdentityFile : {<<>>, KeyC}]

\* the config file: missing, unreadable and corrupt files show no entry
Confs ==
    {[status |-> s, host |-> "other", entry |-> EmptyEntry] :
        s \in {"missing", "unreadable", "corrupt"}}
    \cup {[status |-> "ok", host |-> h, entry |-> e] : h \in {"myhost", "other"}, e \in Entries}

ConfsFew ==
    {[status |-> s, host |-> "other", entry |-> EmptyEntry] : s \in {"missing", "corrupt"}}
    \cup {[status |-> "ok", host |-> "myhost",
           entry |-> [HostName |-> "example.com", User |-> "alice",
                      Port |-> <<"2", "2">>, IdentityFile |-> KeyC]]}

Files ==
    {<<>>, fillHome(KeyTilde), fillHome(KeyK), fillHome(KeyC)} \cup {fillHome(defaultKeys[i]) : i \in 1..Len(defaultKeys)}

Outcomes == {"unreadable", "unparsable", "parsable"}

\* os.ReadFile fails on "" and on the home directory
FileSystems == {f \in [Files -> Outcomes] : f[<<>>] = "unreadable" /\ f[Home] = "unreadable"}

FileSystemsFew ==
    {[p \in Files |-> "unreadable"],
     [p \in Files |-> IF p = fillHome(defaultKeys[1]) THEN "parsable" ELSE "unreadable"]}

Declarations(hosts, users, ports, ids, locals) ==
    [Host : hosts, User : users, Port : ports, IdentityFile : ids,
     LocalAddress : locals, RemoteAddress : {"localhost:5432"}]

\* ----------------------------------------------------------------- Init

InitRun(decls, confs, fss, khs) ==
    /\ t \in decls
    /\ t_rc = <<>>
    /\ conf \in confs
    /\ fs \in fss
    /\ kh \in khs
    /\ pc = "parse"
    /\ rc = ZeroRunConfig
    /\ err = NoError
    /\ idx = 0
    /\ signers = <<>>
    /\ warnings = <<>>

IdleRun ==
    /\ t = [Host |-> "", User |-> "", Port |-> 0, IdentityFile |-> <<>>,
            LocalAddress |-> <<>>, RemoteAddress |-> ""]
    /\ t_rc = <<>>
    /\ conf = [status |-> "missing", host |-> "other", entry |-> EmptyEntry]
    /\ fs = [p \in Files |-> "unreadable"]
    /\ kh = "ok"
    /\ pc = "idle"
    /\ rc = ZeroRunConfig
    /\ err = NoError
    /\ idx = 0
    /\ signers = <<>>
    /\ warnings = <<>>

IdleNorm ==
    /\ addr = <<>>
    /\ norm = <<>>
    /\ applied = 0

\* var writer io.Writer = &logWriter{inner: os.Stdout}
InitLogWith(sizes) ==
    /\ writers = << [inner |-> "stdout", mutex |-> 0] >>
    /\ writer = 1
    /\ lpc = [p \in Procs |-> "idle"]
    /\ lw = [p \in Procs |-> 0]
    /\ outSize \in {[o \in Outs |-> IF o = "stdout" THEN z ELSE 0] : z \in sizes}
    /\ outLog = [o \in Outs |-> <<>>]
    /\ nLogs = [p \in Procs |-> 0]
    /\ nSet = 0

\* resolution against every config file, few file systems
Init ==
    /\ InitRun(Declarations(Hosts, Users, Ports, {<<>>, KeyK}, {Addr8080}),
               Confs, FileSystemsFew, {"ok"})
    /\ IdleNorm
    /\ InitLogWith({0})

\* key loading against every file system, few config files
InitKeys ==
    /\ InitRun(Declarations({"myhost"}, Users, {0}, {<<>>, KeyK, KeyTilde, defaultKeys[1]},
                            {Addr8080, AddrAny8080}),
               ConfsFew, FileSystems, {"ok", "fail"})
    /\ IdleNorm
    /\ InitLogWith({0})

InitNorm ==
    /\ IdleRun
    /\ addr \in AddrInputs
    /\ norm = addr
    /\ applied = 0
    /\ InitLogWith({0})

InitLog ==
    /\ IdleRun
    /\ IdleNorm
    /\ InitLogWith({0, maxFileSize - MsgLen})

\* ------------------------------------------------- makeRunConfig, by step

\* parseSSHConf(t.Host, &rc) and the wrapping of its error
ParseStep ==
    /\ pc = "parse"
    /\ LET res == parseSSHConf(t.Host, rc)
       IN  IF res.err # NoError
           THEN /\ err' = <<"could not parse SSH config">> \o res.err
                /\ pc' = "failed"
                /\ rc' = rc
           ELSE /\ rc' = res.rc
                /\ pc' = "override"
                /\ err' = err
    /\ UNCHANGED <<t, t_rc, conf, fs, kh, idx, signers, warnings>>
    /\ UNCHANGED <<normVars, logVars>>

OverrideStep ==
    /\ pc = "override"
    /\ rc' = override(t, rc)
    /\ pc' = "validate"
    /\ UNCHANGED <<t, t_rc, conf, fs, kh, err, idx, signers, warnings>>
    /\ UNCHANGED <<normVars, logVars>>

\* validate(&rc); on success makeClientConfig is entered
ValidateStep ==
    /\ pc = "validate"
    /\ LET e == validate(rc)
       IN  IF e # NoError
           THEN /\ err' = e
                /\ pc' = "failed"
                /\ idx' = idx
           ELSE /\ pc' = "scan"
                /\ idx' = 1
                /\ err' = err
    /\ UNCHANGED <<t, t_rc, conf, fs, kh, rc, signers, warnings>>
    /\ UNCHANGED <<normVars, logVars>>

\* makeClientConfig: one candidate of the loop; log.Warningf, called from this
\* one goroutine, is the candidate added to warnings
ScanStep ==
    /\ pc = "scan"
    /\ idx <= Len(identityFiles(rc.identityFile))
    /\ LET acc == scanKey([signers |-> signers, warnings |-> warnings],
                          identityFiles(rc.identityFile)[idx])
       IN  /\ signers' = acc.signers
           /\ warnings' = acc.warnings
    /\ idx' = idx + 1
    /\ UNCHANGED <<t, t_rc, conf, fs, kh, pc, rc, err>>
    /\ UNCHANGED <<normVars, logVars>>

\* makeClientConfig after the loop, and makeRunConfig's handling of its result
ClientConfigStep ==
    /\ pc = "scan"
    /\ idx > Len(identityFiles(rc.identityFile))
    /\ LET res == finishClientConfig(rc.user, signers)
       IN  IF res.err # NoError
           THEN /\ err' = <<"could not make client config">> \o res.err
                /\ pc' = "failed"
                /\ rc' = rc
           ELSE /\ rc' = [rc EXCEPT !.clientConfig = res.conf]
                /\ pc' = "store"
                /\ err' = err
    /\ UNCHANGED <<t, t_rc, conf, fs, kh, idx, signers, warnings>>
    /\ UNCHANGED <<normVars, logVars>>

\* the addresses, t.rc = &rc, return nil
StoreStep ==
    /\ pc = "store"
    /\ rc' = [rc EXCEPT !.remoteAddress = t.RemoteAddress,
                        !.localAddress = normalizeLocalAddress(t.LocalAddress)]
    /\ t_rc' = <<rc'>>
    /\ pc' = "done"
    /\ UNCHANGED <<t, conf, fs, kh, err, idx, signers, warnings>>
    /\ UNCHANGED <<normVars, logVars>>

Next == ParseStep \/ OverrideStep \/ ValidateStep \/ ScanStep \/ ClientConfigStep \/ StoreStep

Spec == Init /\ [][Next]_vars

SpecKeys == InitKeys /\ [][Next]_vars

\* ------------------------------------------ local address normalization

NormalizeStep ==
    /\ applied < 2
    /\ norm' = normalizeLocalAddress(norm)
    /\ applied' = applied + 1
    /\ addr' = addr
    /\ UNCHANGED <<runVars, logVars>>

NextNorm == NormalizeStep

SpecNorm == InitNorm /\ [][NextNorm]_vars

\* ------------------------------------------------------------ log calls

\* Warningf etc.: fmt.Fprintf(writer, ...) reads the package-level writer
LogCall(p) ==
    /\ lpc[p] = "idle"
    /\ nLogs[p] < MaxLogs
    /\ lw' = [lw EXCEPT ![p] = writer]
    /\ lpc' = [lpc EXCEPT ![p] = "lock"]
    /\ UNCHANGED <<writers, writer, outSize, outLog, nLogs, nSet>>
    /\ UNCHANGED <<runVars, normVars>>

\* Write: w.mutex.Lock()
Lock(p) ==
    /\ lpc[p] = "lock"
    /\ writers[lw[p]].mutex = 0
    /\ writers' = [writers EXCEPT ![lw[p]].mutex = p]
    /\ lpc' = [lpc EXCEPT ![p] = "rotate"]
    /\ UNCHANGED <<writer, lw, outSize, outLog, nLogs, nSet>>
    /\ UNCHANGED <<runVars, normVars>>

\* Write: w.tryRotate()
Rotate(p) ==
    /\ lpc[p] = "rotate"
    /\ \E statOk \in BOOLEAN, truncOk \in BOOLEAN :
          LET o == writers[lw[p]].inner
          IN  outSize' = [outSize EXCEPT ![o] = tryRotate(o, @, statOk, truncOk)]
    /\ lpc' = [lpc EXCEPT ![p] = "write"]
    /\ UNCHANGED <<writers, writer, lw, outLog, nLogs, nSet>>
    /\ UNCHANGED <<runVars, normVars>>

\* Write: w.inner.Write(bytes)
InnerWrite(p) ==
    /\ lpc[p] = "write"
    /\ LET o == writers[lw[p]].inner
       IN  /\ outSize' = [outSize EXCEPT ![o] = @ + MsgLen]
           /\ outLog' = [outLog EXCEPT ![o] = Append(@, p)]
    /\ lpc' = [lpc EXCEPT ![p] = "unlock"]
    /\ UNCHANGED <<writers, writer, lw, nLogs, nSet>>
    /\ UNCHANGED <<runVars, normVars>>

\* Write: the deferred w.mutex.Unlock()
Unlock(p) ==
    /\ lpc[p] = "unlock"
    /\ writers' = [writers EXCEPT ![lw[p]].mutex = 0]
    /\ lpc' = [lpc EXCEPT ![p] = "idle"]
    /\ nLogs' = [nLogs EXCEPT ![p] = @ + 1]
    /\ UNCHANGED <<writer, lw, outSize, outLog, nSet>>
    /\ UNCHANGED <<runVars, normVars>>

\* SetOutput(w): writer = &logWriter{inner: w}
SetOutput(o) ==
    /\ nSet < MaxSetOutput
    /\ writers' = Append(writers, [inner |-> o, mutex |-> 0])
    /\ writer' = Len(writers) + 1
    /\ nSet' = nSet + 1
    /\ UNCHANGED <<lpc, lw, outSize, outLog, nLogs>>
    /\ UNCHANGED <<runVars, normVars>>

NextLog ==
    \/ \E p \in Procs : LogCall(p)
    \/ \E p \in Procs : Lock(p)
    \/ \E p \in Procs : Rotate(p)
    \/ \E p \in Procs : InnerWrite(p)
    \/ \E p \in Procs : Unlock(p)
    \/ \E o \in Outs : SetOutput(o)

SpecLog == InitLog /\ [][NextLog]_vars

\* ================================================================ claims

\* the config file was opened and decoded and holds a Host block for the alias
EntryFound == conf.status = "ok" /\ conf.host = t.Host

\* makeRunConfig has merged the three sources (it is at or past validate)
Resolved == pc \in {"validate", "scan", "store", "done"}

ValidationErrors ==
    {<<"no host specified.">>, <<"no user specified.">>, <<"no port specified.">>}

Candidates == identityFiles(rc.identityFile)

IsParsable(c) == fs[fillHome(c)] = "parsable"
IsUnparsable(c) == fs[fillHome(c)] = "unparsable"

\* the candidates before position n whose key parses, as the files they name
ParsableBefore(n) ==
    LET sel == SelectSeq(SubSeq(Candidates, 1, n - 1), IsParsable)
    IN  [i \in 1..Len(sel) |-> fillHome(sel[i])]

UnparsableBefore(n) == SelectSeq(SubSeq(Candidates, 1, n - 1), IsUnparsable)

ScanDone == idx = Len(Candidates) + 1

\* C1 as stated: every resolved field is the declaration's value if set,
\* otherwise the value found in the config file for the alias, otherwise the
\* default (22 for the port, the alias for the host name, none for user and
\* identity file); whatever Port text the file holds for the alias is the port.
C1_PrecedenceAsStated ==
    Resolved =>
        /\ rc.user = (IF t.User # "" THEN t.User
                      ELSE IF EntryFound /\ conf.entry.User # "" THEN conf.entry.User
                      ELSE "")
        /\ rc.identityFile = (IF t.IdentityFile # <<>> THEN t.IdentityFile
                              ELSE IF EntryFound /\ conf.entry.IdentityFile # <<>>
                              THEN conf.entry.IdentityFile
                              ELSE <<>>)
        /\ rc.hostName = (IF EntryFound /\ conf.entry.HostName # "" THEN conf.entry.HostName
                          ELSE t.Host)
        /\ rc.port = (IF t.Port # 0 THEN t.Port
                      ELSE IF EntryFound /\ conf.entry.Port # <<>> THEN Atoi(conf.entry.Port)
                      ELSE sshPort)

\* C1 amended: as stated, except that the config file's port is the integer
\* strconv.Atoi reads from the Port text, and a Port text that is not a number
\* or reads as 0 counts as no port found, so that the default 22 applies.
C1_Precedence ==
    Resolved =>
        /\ rc.user = (IF t.User # "" THEN t.User
                      ELSE IF EntryFound /\ conf.entry.User # "" THEN conf.entry.User
                      ELSE "")
        /\ rc.identityFile = (IF t.IdentityFile # <<>> THEN t.IdentityFile
                              ELSE IF EntryFound /\ conf.entry.IdentityFile # <<>>
                              THEN conf.entry.IdentityFile
                              ELSE <<>>)
        /\ rc.hostName = (IF EntryFound /\ conf.entry.HostName # "" THEN conf.entry.HostName
                          ELSE t.Host)
        /\ rc.port = (IF t.Port # 0 THEN t.Port
                      ELSE IF EntryFound /\ Atoi(conf.entry.Port) # 0 THEN Atoi(conf.entry.Port)
                      ELSE sshPort)

\* a declaration with only the alias set, resolved from the file's HostName,
\* User and Port 20
C1_Witness ==
    /\ pc = "done"
    /\ t.Host = "myhost" /\ t.User = "" /\ t.Port = 0 /\ t.IdentityFile = <<>>
    /\ EntryFound
    /\ conf.entry.Port = <<"2", "0">>
    /\ t_rc[1].hostName = "example.com" /\ t_rc[1].user = "alice" /\ t_rc[1].port = 20

\* C2: makeClientConfig (key loading, known-hosts construction) runs only on
\* a run configuration validate accepted: hostName and user non-empty, port
\* non-zero; after a validation failure it has not run at all.
C2_ValidBeforeClientConfig ==
    /\ (idx > 0 \/ signers # <<>> \/ warnings # <<>> \/ rc.clientConfig.set)
          => (rc.hostName # "" /\ rc.user # "" /\ rc.port # 0)
    /\ (pc = "failed" /\ (rc.hostName = "" \/ rc.user = "" \/ rc.port = 0))
          => (idx = 0 /\ signers = <<>> /\ warnings = <<>> /\ ~rc.clientConfig.set)

\* makeClientConfig is scanning its second candidate
C2_Witness == pc = "scan" /\ idx = 2 /\ rc.user = "alice"

\* C3: every stored Run Configuration has a positive port, whatever Port the
\* declaration gives and whatever Port text the config file holds.
C3_PortPositive == t_rc # <<>> => t_rc[1].port > 0

\* C4: when the known-hosts store cannot be constructed, makeClientConfig
\* returns that error and makeRunConfig fails, however many keys were loaded;
\* every stored Run Configuration carries the known-hosts callback.
C4_KnownHostsFatal ==
    /\ kh = "fail" => t_rc = <<>> /\ pc # "store" /\ pc # "done" /\ ~rc.clientConfig.set
    /\ (kh = "fail" /\ ScanDone /\ signers # <<>> /\ pc # "scan")
          => /\ pc = "failed"
             /\ err = <<"could not make client config", "knownhosts: cannot read store">>
    /\ t_rc # <<>> => /\ t_rc[1].clientConfig.set
                      /\ t_rc[1].clientConfig.HostKeyCallback = "knownhosts"

\* two keys were loaded and the known-hosts failure still failed the tunnel
C4_Witness ==
    /\ pc = "failed" /\ kh = "fail" /\ Len(signers) = 2
    /\ err = <<"could not make client config", "knownhosts: cannot read store">>

\* C5: at every point of the scan the Signer Set is exactly the parsable
\* candidates seen so far, in scan order, and the warnings are exactly the
\* readable-but-unparsable ones; the scan never ends early; with one malformed
\* and one valid key and a constructible known-hosts store resolution succeeds
\* with one warning and one signer.
C5_KeyScan ==
    /\ idx > 0 => /\ signers = ParsableBefore(idx)
                  /\ warnings = UnparsableBefore(idx)
    /\ (idx > 0 /\ pc # "scan") => ScanDone
    /\ (pc \in {"failed", "done"} /\ ScanDone /\ kh = "ok"
          /\ Len(UnparsableBefore(idx)) = 1 /\ Len(ParsableBefore(idx)) = 1)
          => /\ pc = "done"
             /\ err = NoError
             /\ Len(warnings) = 1
             /\ t_rc[1].clientConfig.Auth = signers
             /\ Len(signers) = 1

\* the declared key is malformed, ~/.ssh/id_ecdsa is valid, nothing else is
\* readable: one warning, one signer, success
C5_Witness ==
    /\ pc = "done"
    /\ warnings = <<KeyK>>
    /\ signers = <<fillHome(defaultKeys[2])>>
    /\ t_rc[1].clientConfig.Auth = signers

\* C6: when the Signer Set is empty after the scan (in particular when no
\* candidate is readable), makeRunConfig fails with "no key files found." and
\* stores no Run Configuration.
C6_NoKeyFiles ==
    /\ (ScanDone /\ \A i \in 1..Len(Candidates) : fs[fillHome(Candidates[i])] = "unreadable")
          => signers = <<>>
    /\ (ScanDone /\ signers = <<>> /\ pc # "scan")
          => /\ pc = "failed"
             /\ err = <<"could not make client config", "no key files found.">>
             /\ t_rc = <<>>
             /\ ~rc.clientConfig.set

\* no candidate was readable and the tunnel failed with that error
C6_Witness ==
    /\ pc = "failed"
    /\ err = <<"could not make client config", "no key files found.">>
    /\ \A i \in 1..Len(Candidates) : fs[fillHome(Candidates[i])] = "unreadable"
    /\ t.IdentityFile = KeyK

\* the alias is non-empty, no entry of the config file matches it (the file is
\* absent, or decoded without a Host block for the alias), and the declaration
\* sets no user, port or identity file
C7_Case ==
    /\ t.Host # "" /\ t.User = "" /\ t.Port = 0 /\ t.IdentityFile = <<>>
    /\ \/ conf.status \in {"missing", "unreadable"}
       \/ conf.status = "ok" /\ conf.host # t.Host

\* C7: such a declaration fails with "no user specified.": the host name is the
\* alias and the port 22, so neither the host nor the port error is reported,
\* and no key is loaded.
C7_NoUser ==
    C7_Case =>
        /\ pc \notin {"scan", "store", "done"}
        /\ pc \in {"validate", "failed"} => rc.hostName = t.Host /\ rc.port = sshPort /\ rc.user = ""
        /\ pc = "failed" => err = <<"no user specified.">>
        /\ idx = 0 /\ signers = <<>> /\ warnings = <<>> /\ t_rc = <<>>

\* the config file has a Host block, but not for this alias
C7_Witness ==
    /\ C7_Case /\ conf.status = "ok"
    /\ pc = "failed" /\ err = <<"no user specified.">>

\* C8 as stated: a config file that exists but cannot be opened, or cannot be
\* decoded, fails makeRunConfig with an error wrapping the cause.
C8_UnreadableOrCorruptFails ==
    (conf.status \in {"unreadable", "corrupt"} /\ pc # "parse")
        => /\ pc = "failed"
           /\ err # NoError /\ err[1] = "could not parse SSH config" /\ Len(err) > 1
           /\ t_rc = <<>>

\* C8 amended: a config file that was opened but cannot be decoded fails
\* makeRunConfig with an error wrapping the cause, and nothing is stored; a file
\* that cannot be opened is no error: resolution goes on with no field set
\* from the file.
C8_CorruptFails ==
    /\ (conf.status = "corrupt" /\ pc # "parse")
          => /\ pc = "failed"
             /\ err = <<"could not parse SSH config", "could not decode ssh config",
                        "decode error">>
             /\ t_rc = <<>>
    /\ (conf.status \in {"missing", "unreadable"} /\ pc # "parse")
          => /\ err = NoError \/ err[1] # "could not parse SSH config"
             /\ pc = "override" => rc = ZeroRunConfig

\* a corrupt config file failed the tunnel
C8_Witness == conf.status = "corrupt" /\ pc = "failed" /\ t.User = "bob"

\* C9: a local address without ':' becomes "localhost:" followed by it, one
\* holding ':' stays as it is, and normalizing the result again changes nothing.
C9_Normalize ==
    applied >= 1 =>
        /\ (\A i \in 1..Len(addr) : addr[i] # ":") => norm = LocalhostColon \o addr
        /\ (\E i \in 1..Len(addr) : addr[i] = ":") => norm = addr
        /\ addr = Addr8080 => norm = <<"l", "o", "c", "a", "l", "h", "o", "s", "t", ":",
                                       "8", "0", "8", "0">>
        /\ addr = AddrAny8080 => norm = AddrAny8080

\* "8080" normalized twice is "localhost:8080"
C9_Witness ==
    /\ applied = 2 /\ addr = Addr8080
    /\ norm = <<"l", "o", "c", "a", "l", "h", "o", "s", "t", ":", "8", "0", "8", "0">>

\* C10: at most one goroutine at a time is between tryRotate and the end of
\* inner.Write on the same underlying output, also when SetOutput replaces the
\* package-level writer.
C10_Serialized ==
    \A o \in Outs :
        Cardinality({p \in Procs : /\ lpc[p] \in {"rotate", "write"}
                                   /\ writers[lw[p]].inner = o}) <= 1

====
